---- MODULE Spec2Model ----
(***************************************************************************)
(* Fantasy Cricket Assistant (main.py, backend.py).                        *)
(*                                                                         *)
(* The Streamlit script keeps three pieces of session state                *)
(* (current_match_data, match_list_for_llm, messages) and has two          *)
(* handlers: the "Fetch Latest Matches" button and the chat input.  Each   *)
(* handler is one action.  What a chat turn shows, fetches and sends is    *)
(* kept in `last`, the record of the most recent handler run.              *)
(*                                                                         *)
(* Text is a sequence of tokens.  Data strings (match names, identifiers,  *)
(* the user's query, reply fragments) are sequences of one-character       *)
(* tokens; the literal pieces of the f-strings are single tokens.          *)
(* Concatenation is \o, the empty string is <<>>.                          *)
(***************************************************************************)
EXTENDS Integers, Sequences, FiniteSets, TLC

VARIABLES current_match_data, match_list_for_llm, messages, chat_history, last

vars == <<current_match_data, match_list_for_llm, messages, chat_history, last>>

----------------------------------------------------------------------------
(* Bounds of the exploration *)

MaxMatches == 2
MaxFrags == 2
MaxTurns == 3

(* Program constants *)

SummaryLimit == 5

----------------------------------------------------------------------------
(* Python values *)

None == <<>>
Some(v) == <<v>>

\* truthiness of an optional string: None and "" are falsy
StrTruthy(o) == o # None /\ o[1] # <<>>

\* dict.get(k) and dict.get(k, default)
Get(m, k) == IF k \in DOMAIN m THEN Some(m[k]) ELSE None
GetOr(m, k, d) == IF k \in DOMAIN m THEN m[k] ELSE d

NA == <<"N", "/", "A">>

\* what _make_api_request returns: None, or the payload's data
ApiNone == [none |-> TRUE, data |-> <<>>]
ApiData(d) == [none |-> FALSE, data |-> d]
Truthy(r) == ~r.none /\ r.data # <<>>

Upper == <<"A", "B", "C", "D", "E", "F", "G", "H", "I", "J", "K", "L", "M",
           "N", "O", "P", "Q", "R", "S", "T", "U", "V", "W", "X", "Y", "Z">>
Lowers == <<"a", "b", "c", "d", "e", "f", "g", "h", "i", "j", "k", "l", "m",
            "n", "o", "p", "q", "r", "s", "t", "u", "v", "w", "x", "y", "z">>

LowerChar(c) ==
  IF \E i \in DOMAIN Upper : Upper[i] = c
  THEN Lowers[CHOOSE i \in DOMAIN Upper : Upper[i] = c]
  ELSE c

\* str.lower()
Lower(s) == [i \in DOMAIN s |-> LowerChar(s[i])]

Digits == <<"0", "1", "2", "3", "4", "5", "6", "7", "8", "9">>
IsDigit(c) == \E i \in DOMAIN Digits : Digits[i] = c
DigitVal(c) == (CHOOSE i \in DOMAIN Digits : Digits[i] = c) - 1

\* int(digits)
RECURSIVE StrToInt(_)
StrToInt(ds) ==
  IF ds = <<>> THEN 0
  ELSE 10 * StrToInt(SubSeq(ds, 1, Len(ds) - 1)) + DigitVal(ds[Len(ds)])

\* sep.join(parts)
RECURSIVE Join(_, _)
Join(sep, parts) ==
  IF parts = <<>> THEN <<>>
  ELSE IF Len(parts) = 1 THEN parts[1]
  ELSE parts[1] \o sep \o Join(sep, Tail(parts))

\* str(i) as the characters of the number
RECURSIVE IntToStr(_)
IntToStr(n) ==
  IF n < 10 THEN <<Digits[n + 1]>>
  ELSE IntToStr(n \div 10) \o <<Digits[(n % 10) + 1]>>

----------------------------------------------------------------------------
(* CricketData *)

\* An HTTP exchange: ok is FALSE when requests.get / raise_for_status raise
\* a RequestException; payload is the decoded JSON body.
MakeApiRequestNoStatusCheck(resp) ==
  IF ~resp.ok THEN ApiNone
  ELSE ApiData(GetOr(resp.payload, "data", <<>>))

MakeApiRequest(resp) ==
  IF ~resp.ok THEN ApiNone
  ELSE IF GetOr(resp.payload, "status", "") # "success" THEN ApiNone
  ELSE ApiData(GetOr(resp.payload, "data", <<>>))

----------------------------------------------------------------------------
(* Fetch Latest Matches *)

BuildMatchListZeroBased(matches) ==
  [i \in DOMAIN matches |->
     [index |-> i - 1,
      name |-> GetOr(matches[i], "name", NA),
      id |-> GetOr(matches[i], "id", NA)]]

\* lines 185-194; i here is enumerate's i + 1
BuildMatchList(matches) ==
  [i \in DOMAIN matches |->
     [index |-> i,
      name |-> GetOr(matches[i], "name", NA),
      id |-> GetOr(matches[i], "id", NA)]]

\* lines 183-189 and 196: only the first five matches are summarised
MatchSummary(matches) ==
  LET n == IF Len(matches) < SummaryLimit THEN Len(matches) ELSE SummaryLimit
  IN Join(<<"\n">>,
          [i \in 1..n |->
             IntToStr(i) \o <<". **">> \o GetOr(matches[i], "name", NA)
               \o <<"** - ">> \o GetOr(matches[i], "status", NA)])

RefreshedText(matches) ==
  <<"Here are some of the current matches:\n">> \o MatchSummary(matches)
    \o <<"\n\nI've stored this information. Now you can ask me for fantasy recommendations based on these matches, or ask about a specific match by its number (e.g., 'tell me about match 1') or by its name.">>

CouldNotFetchText == <<"Could not fetch current matches. Please try again later.">>

AppendMessageReplacingLast(msgs, role, text) ==
  IF msgs = <<>> THEN <<[role |-> role, text |-> text]>>
  ELSE [msgs EXCEPT ![Len(msgs)] = [role |-> role, text |-> text]]

\* st.session_state.messages.append({"role": ..., "text": ...})
AppendMessage(msgs, role, text) == Append(msgs, [role |-> role, text |-> text])

----------------------------------------------------------------------------
(* LLM.get_match_intent *)

\* A decoded JSON value: an object (a dict of the two optional fields) or a
\* bare number.  A field value is an int or a string.
JObject(f) == [kind |-> "object", fields |-> f]
JNumber(n) == [kind |-> "number", num |-> n]
IntV(n) == [int |-> n]
StrV(s) == [str |-> s]
IsIntV(v) == DOMAIN v = {"int"}
IsStrV(v) == DOMAIN v = {"str"}

EmptyObject == JObject(<<>>)
NumberIntent(n) == JObject([match_number |-> IntV(n)])
NameIntent(s) == JObject([match_name |-> StrV(s)])

\* bool(match_intent)
JsonTruthy(j) ==
  IF j.kind = "object" THEN DOMAIN j.fields # {} ELSE j.num # 0

MatchLiteral == <<"m", "a", "t", "c", "h", " ">>

\* r'match (\d+)' matches at position i of q
PatternAt(q, i) ==
  /\ i + Len(MatchLiteral) <= Len(q)
  /\ SubSeq(q, i, i + Len(MatchLiteral) - 1) = MatchLiteral
  /\ IsDigit(q[i + Len(MatchLiteral)])

\* the end of the greedy \d+ that starts at position j
DigitRunEnd(q, j) ==
  CHOOSE k \in j..Len(q) :
    /\ \A x \in j..k : IsDigit(q[x])
    /\ (k = Len(q) \/ ~IsDigit(q[k + 1]))

\* lines 140-146: re.search(r'match (\d+)', user_query.lower())
RegexFallback(user_query) ==
  LET q == Lower(user_query)
      hits == {i \in 1..Len(q) : PatternAt(q, i)}
  IN IF hits = {} THEN EmptyObject
     ELSE LET i == CHOOSE h \in hits : \A g \in hits : h <= g
              j == i + Len(MatchLiteral)
          IN NumberIntent(StrToInt(SubSeq(q, j, DigitRunEnd(q, j))))

\* The structured call: it raises, or returns text that json.loads rejects,
\* or returns text that decodes to value.
LlmRaises == [raises |-> TRUE, valid_json |-> FALSE, value |-> EmptyObject]
LlmInvalidJson == [raises |-> FALSE, valid_json |-> FALSE, value |-> EmptyObject]
LlmJson(j) == [raises |-> FALSE, valid_json |-> TRUE, value |-> j]

\* lines 119-146
GetMatchIntent(user_query, llm) ==
  IF llm.raises \/ ~llm.valid_json
  THEN [intent |-> RegexFallback(user_query), fell_back |-> TRUE]
  ELSE [intent |-> llm.value, fell_back |-> FALSE]

----------------------------------------------------------------------------
(* Chat turn, step 1: resolve the intent against the cached matches *)

NoSelection == [id |-> None, name |-> None, warnings |-> <<>>, error |-> None]

InRangeFromSecond(match_index, data) == 0 < match_index /\ match_index < Len(data)

\* line 247
InRange(match_index, data) == 0 <= match_index /\ match_index < Len(data)

\* lines 245-252
SelectByNumber(data, n) ==
  LET match_index == n - 1
  IN IF InRange(match_index, data)
     THEN [id |-> Get(data[match_index + 1], "id"),
           name |-> Get(data[match_index + 1], "name"),
           warnings |-> <<>>, error |-> None]
     ELSE [NoSelection EXCEPT !.warnings = <<[kind |-> "out_of_range", n |-> n]>>]

NameEqualsExact(m, s) == GetOr(m, "name", <<>>) = s

\* line 256
NameEquals(m, s) == Lower(GetOr(m, "name", <<>>)) = Lower(s)

\* lines 253-262: the loop stops at the first match whose name equals s
SelectByName(data, s) ==
  LET hits == {i \in DOMAIN data : NameEquals(data[i], s)}
      sel == IF hits = {} THEN NoSelection
             ELSE LET i == CHOOSE h \in hits : \A g \in hits : h <= g
                  IN [id |-> Get(data[i], "id"), name |-> Get(data[i], "name"),
                      warnings |-> <<>>, error |-> None]
  IN IF ~StrTruthy(sel.id)
     THEN [sel EXCEPT !.warnings = <<[kind |-> "name_not_found", s |-> s]>>]
     ELSE sel

\* lines 244-264, for the value get_match_intent returned
Resolve(data, match_intent) ==
  IF ~JsonTruthy(match_intent) THEN NoSelection
  ELSE IF match_intent.kind # "object"
  THEN [NoSelection EXCEPT !.error = Some("TypeError")]
  ELSE IF "match_number" \in DOMAIN match_intent.fields
  THEN IF IsIntV(match_intent.fields["match_number"])
       THEN SelectByNumber(data, match_intent.fields["match_number"].int)
       ELSE [NoSelection EXCEPT !.error = Some("TypeError")]
  ELSE IF "match_name" \in DOMAIN match_intent.fields
  THEN IF IsStrV(match_intent.fields["match_name"])
       THEN SelectByName(data, match_intent.fields["match_name"].str)
       ELSE [NoSelection EXCEPT !.error = Some("AttributeError")]
  ELSE NoSelection

\* line 236
IntentCalled(cache, list) == Truthy(cache) /\ list # <<>>

\* line 286: the intent named a match (evaluated when no id was selected)
NamesAMatchByNameOnly(match_intent) ==
  /\ JsonTruthy(match_intent)
  /\ match_intent.kind = "object"
  /\ "match_name" \in DOMAIN match_intent.fields

NamesAMatch(match_intent) ==
  /\ JsonTruthy(match_intent)
  /\ match_intent.kind = "object"
  /\ \/ "match_number" \in DOMAIN match_intent.fields
     \/ "match_name" \in DOMAIN match_intent.fields

----------------------------------------------------------------------------
(* Chat turn, step 2: the detail text *)

\* lines 272-277: match_info is a dict, here the sequence of its items;
\* only scalar values are rendered
InfoBlock(selected_match_id, selected_match_name, match_info) ==
  LET shown == IF StrTruthy(selected_match_name) THEN selected_match_name[1] ELSE NA
      Line(e) == IF e.scalar THEN <<"- ">> \o e.key \o <<": ">> \o e.value \o <<"\n">>
                 ELSE <<>>
      Lines[i \in 0..Len(match_info)] ==
        IF i = 0 THEN <<>> ELSE Lines[i - 1] \o Line(match_info[i])
  IN <<"Detailed Info for Match ID ">> \o selected_match_id[1] \o <<" (">> \o shown
       \o <<"):\n">> \o Lines[Len(match_info)] \o <<"\n">>

\* lines 279-285
SquadBlock(match_squad) ==
  LET Players(t) ==
        LET ps == GetOr(t, "players", <<>>)
        IN [i \in DOMAIN ps |-> GetOr(ps[i], "name", NA)]
      Line(t) == <<"  - ">> \o GetOr(t, "name", <<"Unknown Team">>) \o <<": ">>
                   \o Join(<<", ">>, Players(t)) \o <<"\n">>
      Lines[i \in 0..Len(match_squad)] ==
        IF i = 0 THEN <<>> ELSE Lines[i - 1] \o Line(match_squad[i])
  IN <<"Squads:\n">> \o Lines[Len(match_squad)] \o <<"\n">>

\* lines 272-285, once an id was selected
DetailFor(selected_match_id, selected_match_name, match_info, match_squad) ==
  (IF Truthy(match_info)
   THEN InfoBlock(selected_match_id, selected_match_name, match_info.data)
   ELSE <<>>)
  \o
  (IF Truthy(match_squad) THEN SquadBlock(match_squad.data) ELSE <<>>)

ApologyText == <<"I understood you were asking about a specific match, but I couldn't find its details or ID. Please ensure the match number/name is correct and try again.">>

----------------------------------------------------------------------------
(* Chat turn, step 3: the prompt *)

\* lines 295-298
GeneralMatchData(data) ==
  Join(<<"\n">>,
       [i \in DOMAIN data |->
          <<"Match: ">> \o GetOr(data[i], "name", NA) \o <<", Status: ">>
            \o GetOr(data[i], "status", NA) \o <<", ID: ">> \o GetOr(data[i], "id", NA)])

\* lines 292-302
ContextForLlm(cache, detailed_match_info_for_llm) ==
  (IF Truthy(cache)
   THEN <<"General Current Match Data:\n">> \o GeneralMatchData(cache.data) \o <<"\n\n">>
   ELSE <<>>)
  \o
  (IF detailed_match_info_for_llm # <<>>
   THEN detailed_match_info_for_llm \o <<"\n">>
   ELSE <<>>)

FullPromptAlwaysPrefixed(context_for_llm, user_input) ==
  context_for_llm \o <<"User Query: ">> \o user_input

\* lines 304-307
FullPrompt(context_for_llm, user_input) ==
  IF context_for_llm # <<>>
  THEN context_for_llm \o <<"User Query: ">> \o user_input
  ELSE user_input

----------------------------------------------------------------------------
(* Chat turn: the streamed reply *)

Cursor == "|cursor|"
Thinking == <<"Thinking...">>

ErrorText(e) ==
  <<"Error communicating with Gemini or fetching match details: ", e>>

AccumulateLatest(full_bot_reply, chunk) == chunk

\* line 318
Accumulate(full_bot_reply, chunk) == full_bot_reply \o chunk

\* lines 315-319: the buffer after the first i chunks
RECURSIVE ReplyAfter(_, _)
ReplyAfter(frags, i) ==
  IF i = 0 THEN <<>>
  ELSE IF frags[i] # <<>> THEN Accumulate(ReplyAfter(frags, i - 1), frags[i])
  ELSE ReplyAfter(frags, i - 1)

\* lines 227 and 316-319: what response_area shows once chunk i has been
\* handled; an empty chunk leaves the placeholder as it was
RECURSIVE Screen(_, _)
Screen(frags, i) ==
  IF i = 0 THEN Thinking
  ELSE IF frags[i] # <<>> THEN ReplyAfter(frags, i) \o <<Cursor>>
  ELSE Screen(frags, i - 1)

----------------------------------------------------------------------------
(* Transcript Store (backend.py); main.py never imports it *)

save_chat(table, username, question, answer) ==
  Append(table, [username |-> username, question |-> question, answer |-> answer])

----------------------------------------------------------------------------
(* The record of the most recent handler run *)

EmptyLog ==
  [op |-> "init", refreshed |-> FALSE, user_input |-> None, intent_called |-> FALSE,
   llm |-> None, match_intent |-> None, fell_back |-> FALSE,
   selected_match_id |-> None, selected_match_name |-> None,
   warnings |-> <<>>, fetches |-> <<>>, info_resp |-> None, squad_resp |-> None,
   match_info |-> None, match_squad |-> None,
   detailed |-> <<>>, prompt |-> None, stream |-> None,
   shown |-> <<>>, final_display |-> <<>>, bot_reply |-> <<>>, error |-> None]

Init ==
  /\ current_match_data = ApiNone      \* line 166
  /\ match_list_for_llm = <<>>         \* line 169
  /\ messages = <<>>                   \* line 163
  /\ chat_history = <<>>
  /\ last = EmptyLog

----------------------------------------------------------------------------
(* Fetch Latest Matches, lines 178-209 *)

FetchLatestMatches(resp) ==
  LET matches == MakeApiRequest(resp)
  IN /\ IF Truthy(matches)
        THEN /\ current_match_data' = matches
             /\ match_list_for_llm' = BuildMatchList(matches.data)
             /\ messages' = AppendMessage(messages, "assistant", RefreshedText(matches.data))
        ELSE /\ messages' = AppendMessage(messages, "assistant", CouldNotFetchText)
             /\ UNCHANGED <<current_match_data, match_list_for_llm>>
     /\ last' = [EmptyLog EXCEPT !.op = "refresh", !.refreshed = Truthy(matches)]
     /\ UNCHANGED chat_history

----------------------------------------------------------------------------
(* Chat turn, lines 215-332 *)

\* lines 233-264: the outcome of step 1
Step1(cache, list, user_input, llm) ==
  IF IntentCalled(cache, list)
  THEN LET got == GetMatchIntent(user_input, llm)
           sel == Resolve(cache.data, got.intent)
       IN [intent_called |-> TRUE, match_intent |-> Some(got.intent),
           fell_back |-> got.fell_back,
           id |-> sel.id, name |-> sel.name, error |-> sel.error,
           warnings |-> (IF got.fell_back THEN <<[kind |-> "intent_fallback"]>> ELSE <<>>)
                          \o sel.warnings]
  ELSE [intent_called |-> FALSE, match_intent |-> None, fell_back |-> FALSE,
        id |-> None, name |-> None, error |-> None, warnings |-> <<>>]

\* lines 266-288: the outcome of step 2.  With no id selected and a cache,
\* line 286 reads match_intent, which is unbound when step 1 was skipped.
Step2(cache, s1, info_resp, squad_resp) ==
  IF StrTruthy(s1.id)
  THEN LET match_info == MakeApiRequest(info_resp)
           match_squad == MakeApiRequest(squad_resp)
       IN [fetches |-> <<[kind |-> "match_info", id |-> s1.id[1]],
                         [kind |-> "match_squad", id |-> s1.id[1]]>>,
           match_info |-> Some(match_info), match_squad |-> Some(match_squad),
           detailed |-> DetailFor(s1.id, s1.name, match_info, match_squad),
           error |-> None]
  ELSE [fetches |-> <<>>, match_info |-> None, match_squad |-> None,
        detailed |-> IF Truthy(cache) /\ s1.intent_called /\ NamesAMatch(s1.match_intent[1])
                     THEN ApologyText ELSE <<>>,
        error |-> IF Truthy(cache) /\ ~s1.intent_called THEN Some("NameError") ELSE None]

\* lines 311-327: send the prompt and show the reply; a failure of the
\* stream (or of send_message itself) is caught by the handler
Reply(stream) ==
  LET n == Len(stream.frags)
      shown == [i \in 1..n |-> Screen(stream.frags, i)]
  IN IF stream.fails
     THEN [shown |-> shown, final_display |-> ErrorText("StreamError"),
           bot_reply |-> ErrorText("StreamError"), error |-> Some("StreamError")]
     ELSE [shown |-> shown, final_display |-> ReplyAfter(stream.frags, n),
           bot_reply |-> ReplyAfter(stream.frags, n), error |-> None]

ChatTurn(user_input, llm, info_resp, squad_resp, stream) ==
  LET s1 == Step1(current_match_data, match_list_for_llm, user_input, llm)
      s2 == Step2(current_match_data, s1, info_resp, squad_resp)
      base == [EmptyLog EXCEPT !.op = "chat", !.user_input = Some(user_input),
                 !.intent_called = s1.intent_called,
                 !.llm = IF s1.intent_called THEN Some(llm) ELSE None,
                 !.match_intent = s1.match_intent, !.fell_back = s1.fell_back,
                 !.selected_match_id = s1.id, !.selected_match_name = s1.name,
                 !.warnings = s1.warnings]
      log ==
        IF s1.error # None
        THEN [base EXCEPT !.error = s1.error, !.bot_reply = ErrorText(s1.error[1]),
                          !.final_display = ErrorText(s1.error[1])]
        ELSE IF s2.error # None
        THEN [base EXCEPT !.error = s2.error, !.bot_reply = ErrorText(s2.error[1]),
                          !.final_display = ErrorText(s2.error[1])]
        ELSE LET context == ContextForLlm(current_match_data, s2.detailed)
                 r == Reply(stream)
             IN [base EXCEPT !.fetches = s2.fetches,
                             !.info_resp = IF s2.fetches # <<>> THEN Some(info_resp) ELSE None,
                             !.squad_resp = IF s2.fetches # <<>> THEN Some(squad_resp) ELSE None,
                             !.match_info = s2.match_info,
                             !.match_squad = s2.match_squad, !.detailed = s2.detailed,
                             !.prompt = Some(FullPrompt(context, user_input)),
                             !.stream = Some(stream),
                             !.shown = r.shown, !.final_display = r.final_display,
                             !.bot_reply = r.bot_reply, !.error = r.error]
  IN /\ messages' = AppendMessage(AppendMessage(messages, "user", user_input),
                                  "assistant", log.bot_reply)
     /\ last' = log
     /\ UNCHANGED <<current_match_data, match_list_for_llm, chat_history>>

----------------------------------------------------------------------------
(* The inputs explored *)

\* the sequences without repetition over S, of length at most n
InjSeqs(S, n) ==
  UNION {{q \in [1..k -> S] : \A i, j \in 1..k : q[i] = q[j] => i = j} : k \in 0..n}

\* Provider matches.  MatchA and MatchB have the same name up to case;
\* MatchC has no id and MatchD no name, which the code allows for with
\* m.get(...) and its defaults.
MatchA == [id |-> <<"1">>, name |-> <<"A", "b">>, status |-> <<"L">>]
MatchB == [id |-> <<"2">>, name |-> <<"a", "B">>, status |-> <<"L">>]
MatchC == [name |-> <<"c", "d">>, status |-> <<"E">>]
MatchD == [id |-> <<"4">>]
AllMatches == {MatchA, MatchB, MatchC, MatchD}

TransportError == [ok |-> FALSE, payload |-> <<>>]
ProviderError == [ok |-> TRUE, payload |-> [status |-> "failure", reason |-> "r"]]
ProviderErrorWithData(d) ==
  [ok |-> TRUE, payload |-> [status |-> "failure", reason |-> "r", data |-> d]]
Success(d) == [ok |-> TRUE, payload |-> [status |-> "success", data |-> d]]
SuccessNoData == [ok |-> TRUE, payload |-> [status |-> "success"]]

MatchLists == InjSeqs(AllMatches, MaxMatches)

CurrentMatchesResponses ==
  {TransportError, ProviderError, SuccessNoData} \cup {Success(l) : l \in MatchLists}

InfoPayload ==
  <<[key |-> <<"venue">>, scalar |-> TRUE, value |-> <<"X">>],
    [key |-> <<"teams">>, scalar |-> FALSE, value |-> <<>>]>>

SquadPayload ==
  <<[name |-> <<"T">>, players |-> <<[name |-> <<"p">>], [id |-> <<"9">>]>>],
    [players |-> <<>>]>>

InfoResponses ==
  {TransportError, ProviderErrorWithData(InfoPayload), Success(<<>>), Success(InfoPayload)}

SquadResponses ==
  {TransportError, ProviderErrorWithData(SquadPayload), Success(SquadPayload)}

QMatch2 == <<"M", "a", "t", "c", "h", " ", "2">>
QMatch10 == <<"m", "a", "t", "c", "h", " ", "1", "0">>
QNoSpace == <<"m", "a", "t", "c", "h", "1">>
QHi == <<"h", "i">>
Queries == {QMatch2, QMatch10, QNoSpace, QHi}

IntentNames == {<<"a", "b">>, <<"C", "D">>, <<"z">>, <<>>}

LlmOutcomes ==
  {LlmRaises, LlmInvalidJson, LlmJson(EmptyObject)}
    \cup {LlmJson(NumberIntent(n)) : n \in 0..(MaxMatches + 1)}
    \cup {LlmJson(NameIntent(s)) : s \in IntentNames}
    \cup {LlmJson(JObject([match_number |-> IntV(1), match_name |-> StrV(<<"z">>)])),
          LlmJson(JNumber(5)),
          LlmJson(JObject([match_number |-> StrV(<<"2">>)]))}

Fragments == {<<>>, <<"G", "o">>, <<"o", "d">>}

Streams == {[frags |-> f, fails |-> b] : f \in InjSeqs(Fragments, MaxFrags), b \in BOOLEAN}

\* the handler runs so far: each appends exactly one assistant message
Turns == Cardinality({i \in DOMAIN messages : messages[i].role = "assistant"})

----------------------------------------------------------------------------
(* The session: any sequence of refreshes and chat turns, over a few inputs *)

SessionResponses ==
  {TransportError, Success(<<>>), Success(<<MatchA, MatchC>>), Success(<<MatchB>>)}
SessionQueries == {QMatch2, QHi}
SessionLlm == {LlmRaises, LlmJson(NameIntent(<<"a", "b">>))}
SessionInfo == {TransportError, Success(InfoPayload)}
SessionSquad == {Success(SquadPayload)}
SessionStreams ==
  {[frags |-> <<<<"G", "o">>, <<"o", "d">>>>, fails |-> FALSE],
   [frags |-> <<<<"G", "o">>>>, fails |-> TRUE]}

Refresh ==
  /\ Turns < MaxTurns
  /\ \E resp \in SessionResponses : FetchLatestMatches(resp)

Chat ==
  /\ Turns < MaxTurns
  /\ \E user_input \in SessionQueries, llm \in SessionLlm, info_resp \in SessionInfo,
        squad_resp \in SessionSquad, stream \in SessionStreams :
       ChatTurn(user_input, llm, info_resp, squad_resp, stream)

Next == Refresh \/ Chat

Spec == Init /\ [][Next]_vars

----------------------------------------------------------------------------
(* One turn: at most one refresh, then one chat turn, over every cached    *)
(* list, query, intent and provider response                               *)

RefreshOnce ==
  /\ messages = <<>>
  /\ \E resp \in CurrentMatchesResponses : FetchLatestMatches(resp)

ChatOnce ==
  /\ last.op # "chat"
  /\ \E user_input \in Queries, llm \in LlmOutcomes, info_resp \in InfoResponses,
        squad_resp \in SquadResponses, stream \in SessionStreams :
       ChatTurn(user_input, llm, info_resp, squad_resp, stream)

NextTurn == RefreshOnce \/ ChatOnce

SpecTurn == Init /\ [][NextTurn]_vars

----------------------------------------------------------------------------
(* One reply: at most one refresh, then one chat turn, over every stream *)

RefreshFirst ==
  /\ messages = <<>>
  /\ \E resp \in SessionResponses : FetchLatestMatches(resp)

ChatStreamed ==
  /\ last.op # "chat"
  /\ \E user_input \in SessionQueries, llm \in SessionLlm, info_resp \in SessionInfo,
        squad_resp \in SessionSquad, stream \in Streams :
       ChatTurn(user_input, llm, info_resp, squad_resp, stream)

NextStream == RefreshFirst \/ ChatStreamed

SpecStream == Init /\ [][NextStream]_vars

----------------------------------------------------------------------------
(* What the properties read from the record of the last chat turn *)

IsChat == last.op = "chat"
Data == current_match_data.data
Intent == last.match_intent[1]

\* the turn's intent carries an integer match_number
CarriesNumber ==
  /\ IsChat /\ last.match_intent # None
  /\ Intent.kind = "object"
  /\ "match_number" \in DOMAIN Intent.fields
  /\ IsIntV(Intent.fields["match_number"])
IntentN == Intent.fields["match_number"].int

\* the turn's intent carries a match_name and no match_number
CarriesNameOnly ==
  /\ IsChat /\ last.match_intent # None
  /\ Intent.kind = "object"
  /\ "match_number" \notin DOMAIN Intent.fields
  /\ "match_name" \in DOMAIN Intent.fields
  /\ IsStrV(Intent.fields["match_name"])
IntentS == Intent.fields["match_name"].str

BothFetches(id) == <<[kind |-> "match_info", id |-> id], [kind |-> "match_squad", id |-> id]>>
Warned(w) == \E i \in DOMAIN last.warnings : last.warnings[i] = w
OutOfRangeWarning(n) == [kind |-> "out_of_range", n |-> n]
NameNotFoundWarning(s) == [kind |-> "name_not_found", s |-> s]
HasId(m) == "id" \in DOMAIN m /\ m.id # <<>>
Contains(text, token) == \E i \in DOMAIN text : text[i] = token
First(S) == CHOOSE i \in S : \A j \in S : i <= j

----------------------------------------------------------------------------
(* C1 *)

\* C1 as stated: with L cached matches and an intent carrying match_number
\* = n, the turn selects the n-th match and calls both fetches with its
\* identifier iff 1 <= n <= L; otherwise nothing is fetched and an
\* out-of-range warning is issued.
C1_SelectsIffInRange ==
  CarriesNumber =>
    IF 1 <= IntentN /\ IntentN <= Len(Data)
    THEN /\ HasId(Data[IntentN])
         /\ last.selected_match_id = Some(Data[IntentN].id)
         /\ last.fetches = BothFetches(Data[IntentN].id)
    ELSE /\ last.selected_match_id = None
         /\ last.fetches = <<>>
         /\ Warned(OutOfRangeWarning(IntentN))

\* C1 amended: the n-th cached match is looked up iff 1 <= n <= L (the
\* selected name and identifier are those it carries, and no out-of-range
\* warning is issued); both fetches are called, with exactly that
\* identifier, iff moreover the n-th match carries a non-empty identifier,
\* and nothing is fetched when it carries none.  For n outside 1..L nothing
\* is selected or fetched and the out-of-range warning for n is issued.
C1_SelectsIffInRangeWithId ==
  CarriesNumber =>
    IF 1 <= IntentN /\ IntentN <= Len(Data)
    THEN /\ last.selected_match_id = Get(Data[IntentN], "id")
         /\ last.selected_match_name = Get(Data[IntentN], "name")
         /\ ~Warned(OutOfRangeWarning(IntentN))
         /\ IF HasId(Data[IntentN])
            THEN last.fetches = BothFetches(Data[IntentN].id)
            ELSE last.fetches = <<>>
    ELSE /\ last.selected_match_id = None
         /\ last.selected_match_name = None
         /\ last.fetches = <<>>
         /\ Warned(OutOfRangeWarning(IntentN))

\* "match 2" of two cached matches: both fetches went out with the second
\* match's identifier
C1_Witness ==
  /\ CarriesNumber /\ IntentN = 2 /\ Len(Data) = 2
  /\ HasId(Data[1]) /\ HasId(Data[2]) /\ Data[1].id # Data[2].id
  /\ last.fetches = BothFetches(Data[2].id)

----------------------------------------------------------------------------
(* C2 *)

\* the cached matches whose name equals s up to case; as on line 256, the
\* name of a match that has none is taken as empty
NamedLike(s) ==
  {i \in DOMAIN Data :
     Lower(IF "name" \in DOMAIN Data[i] THEN Data[i].name ELSE <<>>) = Lower(s)}

\* C2 as stated: an intent carrying only match_name = s resolves iff some
\* cached match name equals s case-insensitively, to the first such match;
\* when none does, a warning is issued and nothing is selected.
C2_ResolvesIffNameMatches ==
  CarriesNameOnly =>
    IF NamedLike(IntentS) # {}
    THEN /\ HasId(Data[First(NamedLike(IntentS))])
         /\ last.selected_match_id = Some(Data[First(NamedLike(IntentS))].id)
         /\ last.selected_match_name = Get(Data[First(NamedLike(IntentS))], "name")
         /\ ~Warned(NameNotFoundWarning(IntentS))
    ELSE /\ last.selected_match_id = None
         /\ last.selected_match_name = None
         /\ Warned(NameNotFoundWarning(IntentS))

\* C2 amended: the turn looks up the first cached match whose name equals s
\* case-insensitively, if there is one (the selected name and identifier
\* are those it carries); it resolves, with both fetches called and no
\* warning, iff that match carries a non-empty identifier.  When no name
\* matches, or the first match that does carries no identifier, nothing is
\* fetched and the name-not-found warning is issued.
C2_ResolvesIffNameMatchesWithId ==
  CarriesNameOnly =>
    IF NamedLike(IntentS) # {}
    THEN LET m == Data[First(NamedLike(IntentS))]
         IN /\ last.selected_match_id = Get(m, "id")
            /\ last.selected_match_name = Get(m, "name")
            /\ IF HasId(m)
               THEN last.fetches = BothFetches(m.id)
                    /\ ~Warned(NameNotFoundWarning(IntentS))
               ELSE last.fetches = <<>> /\ Warned(NameNotFoundWarning(IntentS))
    ELSE /\ last.selected_match_id = None
         /\ last.selected_match_name = None
         /\ last.fetches = <<>>
         /\ Warned(NameNotFoundWarning(IntentS))

\* two cached matches are named like s up to case, neither exactly; the
\* first of them was selected
C2_Witness ==
  /\ CarriesNameOnly
  /\ Cardinality(NamedLike(IntentS)) = 2
  /\ \A i \in NamedLike(IntentS) : Data[i].name # IntentS /\ HasId(Data[i])
  /\ last.fetches = BothFetches(Data[First(NamedLike(IntentS))].id)

----------------------------------------------------------------------------
(* C3 *)

\* the decoded value is the declared object: match_number an integer and
\* match_name a string where present, and nothing else
IsDeclaredObject(j) ==
  /\ j.kind = "object"
  /\ "match_number" \in DOMAIN j.fields => IsIntV(j.fields["match_number"])
  /\ "match_name" \in DOMAIN j.fields => IsStrV(j.fields["match_name"])

\* the structured call raised, or its output cannot be used as the
\* declared JSON object
StructuredIntentFailed ==
  \/ last.llm[1].raises
  \/ ~last.llm[1].valid_json
  \/ ~IsDeclaredObject(last.llm[1].value)

\* C3: whenever the structured call raises or its output cannot be used as
\* the declared JSON object, get_match_intent returns the regex fallback's
\* result (the number after "match ", else the empty object) and the turn
\* goes on to send its prompt; the fallback is used in no other case.
C3_FallbackOnAnyIntentFailure ==
  (IsChat /\ last.intent_called) =>
    /\ StructuredIntentFailed <=> last.fell_back
    /\ StructuredIntentFailed =>
         /\ Intent = RegexFallback(last.user_input[1])
         /\ last.prompt # None

----------------------------------------------------------------------------
(* C4 *)

UserQueryLabel == "User Query: "

\* C4: the prompt sent is the raw user query when there are no cached
\* matches and no detail text; otherwise it is a non-empty context, then
\* "User Query: ", then the user query.
C4_PromptIsQueryOrPrefixedQuery ==
  (IsChat /\ last.prompt # None) =>
    LET p == last.prompt[1]
        q == last.user_input[1]
        k == Len(p) - Len(q)
    IN IF ~Truthy(current_match_data) /\ last.detailed = <<>>
       THEN p = q
       ELSE /\ k >= 2
            /\ SubSeq(p, k + 1, Len(p)) = q
            /\ p[k] = UserQueryLabel
            /\ p[1] # UserQueryLabel

\* a turn with nothing cached sent the bare query
C4_Witness ==
  /\ IsChat /\ ~Truthy(current_match_data)
  /\ last.prompt = last.user_input /\ last.prompt # None

----------------------------------------------------------------------------
(* C5 *)

GeneralBlock == <<"General Current Match Data:\n">> \o GeneralMatchData(Data) \o <<"\n\n">>

NumberOutOfRange == CarriesNumber /\ ~(1 <= IntentN /\ IntentN <= Len(Data))

\* C5 as stated: a match number outside the cached list is warned about,
\* nothing is fetched, and the prompt is the general match list followed by
\* the user query, with no other context text.
C5_OutOfRangePromptIsListAndQuery ==
  NumberOutOfRange =>
    /\ Warned(OutOfRangeWarning(IntentN))
    /\ last.fetches = <<>>
    /\ last.prompt = Some(GeneralBlock \o <<UserQueryLabel>> \o last.user_input[1])

\* C5 amended: a match number outside the cached list is warned about,
\* nothing is fetched, and the prompt is the general match list, then the
\* fixed "I understood you were asking about a specific match ..." text,
\* then the user query; it holds no detail block and no squad block.
C5_OutOfRangePromptHasApology ==
  NumberOutOfRange =>
    /\ Warned(OutOfRangeWarning(IntentN))
    /\ last.fetches = <<>>
    /\ last.prompt = Some(GeneralBlock \o ApologyText \o <<"\n">>
                            \o <<UserQueryLabel>> \o last.user_input[1])
    /\ ~Contains(last.prompt[1], "Detailed Info for Match ID ")
    /\ ~Contains(last.prompt[1], "Squads:\n")

\* one cached match and "match 10", read by the regex fallback
C5_Witness ==
  /\ NumberOutOfRange /\ Len(Data) = 1 /\ IntentN = 10 /\ last.fell_back
  /\ last.prompt # None

----------------------------------------------------------------------------
(* C6 *)

\* transport failure, or a provider status other than "success"
FetchFailed(resp) ==
  \/ ~resp.ok
  \/ "status" \notin DOMAIN resp.payload
  \/ resp.payload.status # "success"

LastMessage == messages[Len(messages)]

----------------------------------------------------------------------------
(* C7 *)

ChatTurnsDone == Cardinality({i \in DOMAIN messages : messages[i].role = "user"})

\* C7: the transcript store holds one record per completed chat turn, and
\* the record of the latest turn carries that turn's question and final
\* assistant text.
C7_OneRecordPerTurn ==
  /\ Len(chat_history) = ChatTurnsDone
  /\ IsChat =>
       /\ chat_history # <<>>
       /\ chat_history[Len(chat_history)].question = last.user_input[1]
       /\ chat_history[Len(chat_history)].answer = last.bot_reply

----------------------------------------------------------------------------
(* C8 *)

\* f1 + ... + fi
RECURSIVE ConcatUpTo(_, _)
ConcatUpTo(frags, i) ==
  IF i = 0 THEN <<>> ELSE ConcatUpTo(frags, i - 1) \o frags[i]

StreamCompleted == IsChat /\ last.stream # None /\ ~last.stream[1].fails
Frags == last.stream[1].frags

\* C8 as stated: after the i-th fragment the display is f1+...+fi plus the
\* cursor marker; the final display is f1+...+fk without the marker, and
\* that is the answer recorded for the turn.
C8_DisplayIsPrefixPlusCursor ==
  StreamCompleted =>
    /\ Len(last.shown) = Len(Frags)
    /\ \A i \in DOMAIN Frags : last.shown[i] = ConcatUpTo(Frags, i) \o <<Cursor>>
    /\ last.final_display = ConcatUpTo(Frags, Len(Frags))
    /\ ~Contains(last.final_display, Cursor)
    /\ LastMessage = [role |-> "assistant", text |-> ConcatUpTo(Frags, Len(Frags))]

\* C8 amended: after the i-th fragment the display is f1+...+fi plus the
\* cursor marker once a non-empty fragment has arrived, and is still the
\* "Thinking..." placeholder while f1..fi are all empty; the final display
\* is f1+...+fk without the marker, and that is the answer recorded for
\* the turn.
C8_DisplayIsPrefixPlusCursorOnceText ==
  StreamCompleted =>
    /\ Len(last.shown) = Len(Frags)
    /\ \A i \in DOMAIN Frags :
         last.shown[i] = IF ConcatUpTo(Frags, i) = <<>> THEN Thinking
                         ELSE ConcatUpTo(Frags, i) \o <<Cursor>>
    /\ last.final_display = ConcatUpTo(Frags, Len(Frags))
    /\ ~Contains(last.final_display, Cursor)
    /\ LastMessage = [role |-> "assistant", text |-> ConcatUpTo(Frags, Len(Frags))]

\* two fragments with text arrived, "Go" then "od": the display read "Go"
\* and then "Good", each with the marker, and "Good" was recorded
C8_Witness ==
  /\ StreamCompleted
  /\ Frags = <<<<"G", "o">>, <<"o", "d">>>>
  /\ last.shown = <<<<"G", "o", Cursor>>, <<"G", "o", "o", "d", Cursor>>>>
  /\ LastMessage.text = <<"G", "o", "o", "d">>

----------------------------------------------------------------------------
(* C9 *)

StreamFailed == IsChat /\ last.error = Some("StreamError")

\* a chat turn whose reply arrives whole
AnsweredChat ==
  /\ \E user_input \in SessionQueries :
       ChatTurn(user_input, LlmRaises, TransportError, TransportError,
                [frags |-> <<<<"G", "o">>>>, fails |-> FALSE])
  /\ last'.error = None

\* C9: a turn whose stream fails appends exactly its user entry and one
\* assistant entry holding the error text; no step changes or removes an
\* entry of an earlier turn; and after the failed turn a chat turn can
\* still be submitted and answered.
C9_StreamFailureEndsOnlyTheTurn ==
  /\ [](StreamFailed => ENABLED AnsweredChat)
  /\ [][/\ Len(messages') >= Len(messages)
        /\ SubSeq(messages', 1, Len(messages)) = messages
        /\ (last'.op = "chat" /\ last'.error = Some("StreamError")) =>
             messages' = messages \o
               <<[role |-> "user", text |-> last'.user_input[1]],
                 [role |-> "assistant", text |-> ErrorText("StreamError")]>>]_vars

\* a turn's stream failed, and the turn after it was answered
C9_Witness ==
  /\ IsChat /\ last.error = None /\ Len(messages) >= 4
  /\ messages[Len(messages) - 2].text = ErrorText("StreamError")
  /\ messages[Len(messages) - 3].role = "user"
  /\ LastMessage = [role |-> "assistant", text |-> <<"G", "o", "o", "d">>]

----------------------------------------------------------------------------
(* C10 *)

CachesAgree ==
  IF current_match_data.none
  THEN match_list_for_llm = <<>>
  ELSE /\ Len(Data) > 0
       /\ Len(match_list_for_llm) = Len(Data)
       /\ \A i \in DOMAIN Data :
            match_list_for_llm[i] =
              [index |-> i,
               name |-> IF "name" \in DOMAIN Data[i] THEN Data[i].name ELSE NA,
               id |-> IF "id" \in DOMAIN Data[i] THEN Data[i].id ELSE NA]

\* C10: in every state between handler runs match_list_for_llm has one
\* entry per cached match, in order, with index i, and the name and id of
\* the i-th match ("N/A" for one it lacks), or both are unset; and a step
\* that changes either is a successful refresh, while a failed or empty
\* refresh and a chat turn change neither.
C10_CachesAgree ==
  /\ []CachesAgree
  /\ [][/\ (current_match_data' # current_match_data
            \/ match_list_for_llm' # match_list_for_llm) =>
             /\ Len(messages') = Len(messages) + 1
             /\ messages'[Len(messages')].role = "assistant"
             /\ messages'[Len(messages')].text[1] = "Here are some of the current matches:\n"
        /\ (last'.op = "chat" \/ messages'[Len(messages')].text = CouldNotFetchText) =>
             UNCHANGED <<current_match_data, match_list_for_llm>>]_vars

\* a refresh stored two matches, the second without an id; a failed
\* refresh and then a chat turn found both caches as they were
C10_Witness ==
  /\ IsChat /\ Len(messages) = 4
  /\ messages[1].text[1] = "Here are some of the current matches:\n"
  /\ messages[2].text = CouldNotFetchText
  /\ Len(Data) = 2 /\ "id" \notin DOMAIN Data[2]
  /\ match_list_for_llm[2].index = 2 /\ match_list_for_llm[2].id = NA

====
